---- MODULE Spec2Model ----
(***************************************************************************)
(* Model of the paper-trading portfolio of live_trading_backend.py:        *)
(* PaperTradingPortfolio (execute_trade, update_positions,                 *)
(* update_daily_snapshot) and the daily cycle run_daily_update.            *)
(*                                                                         *)
(* Money and per-share prices are fixed-point integers in units of 1e-5    *)
(* dollar, so that sub-cent amounts (closing prices carry more than four   *)
(* decimals, option values are reals) are representable.  Dates are day    *)
(* numbers; datetime.now() is a moment after midnight of day `today`.      *)
(***************************************************************************)
EXTENDS Integers, Sequences, FiniteSets, TLC

VARIABLES portfolio, today, lastOp, file, pc, scan_i, total_open_positions, market

vars == <<portfolio, today, lastOp, file, pc, scan_i, total_open_positions, market>>

----------------------------------------------------------------------------
(* Units *)

Cent == 1000

Dollar == 100 * Cent

----------------------------------------------------------------------------
(* Bounds of the model *)

MaxDay == 2

\* trades opened plus snapshots appended
MaxRecords == 3

\* completed runs up to which a completed run is repeated on the same day:
\* as many as there are days
MaxRuns == MaxDay + 1

NumMarkets == 2

NumApiOpps == 4

----------------------------------------------------------------------------
(* Program constants (PaperTradingPortfolio.__init__ and literals) *)

tickers == <<"SPY", "VOO", "VTI", "QQQ">>

allocation_per_ticker == 250 * Dollar

initial_capital == 1000 * Dollar

max_positions_per_ticker == 1

max_total_positions == 4

\* position size fraction 0.02, as a percentage
position_size_pct == 2

\* fallback benchmark price of initialize_portfolio
fallback_price == 250 * Dollar

TickerSet == {tickers[i] : i \in 1..Len(tickers)}

----------------------------------------------------------------------------
(* Arithmetic helpers *)

Max(a, b) == IF a >= b THEN a ELSE b

Abs(a) == IF a >= 0 THEN a ELSE -a

Last(s) == s[Len(s)]

\* round(x, 2): nearest cent, exact halves to the even cent
Round2(x) ==
    LET q == x \div Cent
        r == x % Cent
    IN  IF 2 * r < Cent THEN q * Cent
        ELSE IF 2 * r > Cent THEN (q + 1) * Cent
        ELSE IF q % 2 = 0 THEN q * Cent ELSE (q + 1) * Cent

----------------------------------------------------------------------------
(* Market data: what get_current_price returns for each ticker *)

MarketLadder ==
    << [t \in TickerSet |-> 10 * Dollar],
       [t \in TickerSet |->
            CASE t = "SPY" -> 11 * Dollar + 4
              [] t = "VOO" -> 11 * Dollar + 20 * Cent
              [] t = "VTI" -> 10 * Dollar
              [] t = "QQQ" -> 13 * Dollar],
       [t \in TickerSet |->
            CASE t = "SPY" -> 10 * Dollar
              [] t = "VOO" -> 11 * Dollar + 4
              [] t = "VTI" -> 25 * Dollar
              [] t = "QQQ" -> 11 * Dollar + 20 * Cent],
       [t \in TickerSet |-> 25 * Dollar] >>

Markets == {MarketLadder[i] : i \in 1..NumMarkets}

\* values the Black-Scholes closed form can return (per share)
BSValues == {4, 50 * Cent + 4}

----------------------------------------------------------------------------
(* black_scholes: the degenerate branch is exact; cf stands for the value  *)
(* of the closed form (norm.cdf / exp), an input of the model.             *)

\* variant: the intrinsic value only when both T and sigma are degenerate
black_scholes_both(S, K, T, sigma, option_type, cf) ==
    IF T <= 0 /\ sigma <= 0
    THEN IF option_type = "call" THEN Max(S - K, 0) ELSE Max(K - S, 0)
    ELSE cf

black_scholes(S, K, T, sigma, option_type, cf) ==
    IF T <= 0 \/ sigma <= 0
    THEN IF option_type = "call" THEN Max(S - K, 0) ELSE Max(K - S, 0)
    ELSE cf

----------------------------------------------------------------------------
(* initialize_portfolio *)

\* benchmark share count 250 / price, kept as the exact quotient's operands
Shares(price) == [alloc |-> allocation_per_ticker, price |-> price]

initial_stats ==
    [total_trades |-> 0, winning_trades |-> 0, losing_trades |-> 0,
     total_pnl |-> 0, largest_win |-> 0, largest_loss |-> 0]

initialize_portfolio(day, initial_prices) ==
    [start_date |-> day,
     initial_capital |-> initial_capital,
     current_cash |-> initial_capital,
     positions |-> <<>>,
     closed_trades |-> <<>>,
     daily_snapshots |-> << [date |-> day,
                             portfolio_value |-> initial_capital,
                             cash |-> initial_capital,
                             positions_value |-> 0,
                             benchmarks |-> [t \in TickerSet |-> allocation_per_ticker]] >>,
     benchmark_shares |-> [t \in TickerSet |-> Shares(initial_prices[t])],
     performance_stats |-> initial_stats]

----------------------------------------------------------------------------
(* execute_trade *)

\* variant: the duplicate test also compares the fill price
SameContract_price(pos, opportunity) ==
    /\ pos.ticker = opportunity.ticker
    /\ pos.strike = opportunity.strike
    /\ pos.expiration = opportunity.expiration
    /\ pos.action = opportunity.action
    /\ pos.entry_price = opportunity.price

\* the duplicate test of execute_trade: same ticker, strike, expiration, action
SameContract(pos, opportunity) ==
    /\ pos.ticker = opportunity.ticker
    /\ pos.strike = opportunity.strike
    /\ pos.expiration = opportunity.expiration
    /\ pos.action = opportunity.action

HasDuplicate(positions, opportunity) ==
    \E i \in 1..Len(positions) : SameContract(positions[i], opportunity)

premium_per_contract(opportunity) == opportunity.price * 100

\* variant: the size fraction is 0.2 instead of 0.02
Contracts_fraction(opportunity) ==
    Max(1, ((allocation_per_ticker * position_size_pct * 10) \div 100)
               \div premium_per_contract(opportunity))

\* max(1, int(allocation * 0.02 / premium_per_contract))
Contracts(opportunity) ==
    Max(1, ((allocation_per_ticker * position_size_pct) \div 100)
               \div premium_per_contract(opportunity))

total_premium(opportunity) == Contracts(opportunity) * premium_per_contract(opportunity)

InsufficientCash(pf, opportunity) == total_premium(opportunity) > pf.current_cash

\* variant: the id counts the open positions only
NextTradeId_open(pf) == Len(pf.positions)

\* f"trade_{len(positions) + len(closed_trades)}", kept as the number
NextTradeId(pf) == Len(pf.positions) + Len(pf.closed_trades)

NewTrade(pf, opportunity, day) ==
    [id |-> NextTradeId(pf),
     entry_date |-> day,
     ticker |-> opportunity.ticker,
     action |-> opportunity.action,
     strike |-> opportunity.strike,
     expiration |-> opportunity.expiration,
     contracts |-> Contracts(opportunity),
     entry_price |-> opportunity.price,
     premium_collected |-> IF opportunity.action = "SELL" THEN total_premium(opportunity) ELSE 0,
     premium_paid |-> IF opportunity.action = "BUY" THEN total_premium(opportunity) ELSE 0,
     entry_stock_price |-> opportunity.current_stock_price,
     entry_iv |-> opportunity.iv,
     status |-> "OPEN",
     days_held |-> 0,
     current_pnl |-> 0]

\* variant: the premium is entered twice
CashAfterTrade_twice(cash, opportunity) ==
    IF opportunity.action = "SELL"
    THEN cash + 2 * total_premium(opportunity)
    ELSE cash - 2 * total_premium(opportunity)

CashAfterTrade(cash, opportunity) ==
    IF opportunity.action = "SELL"
    THEN cash + total_premium(opportunity)
    ELSE cash - total_premium(opportunity)

\* result of execute_trade: the value returned and the portfolio afterwards
execute_trade(pf, opportunity, day) ==
    IF HasDuplicate(pf.positions, opportunity) THEN [ret |-> FALSE, portfolio |-> pf]
    ELSE IF InsufficientCash(pf, opportunity) THEN [ret |-> FALSE, portfolio |-> pf]
    ELSE [ret |-> TRUE,
          portfolio |-> [pf EXCEPT
              !.current_cash = CashAfterTrade(@, opportunity),
              !.positions = Append(@, NewTrade(pf, opportunity, day))]]

----------------------------------------------------------------------------
(* update_positions *)

\* variant: strict comparison, closing one day late
IsExpired_strict(day, pos) == day > pos.expiration

\* today >= exp_date, exp_date being midnight of the expiration day
IsExpired(day, pos) == day >= pos.expiration

\* variant: no floor at zero
Intrinsic_nofloor(current_price, strike) == current_price - strike

Intrinsic(current_price, strike) == Max(current_price - strike, 0)

ClosePnl(pos, intrinsic) ==
    IF pos.action = "SELL"
    THEN pos.premium_collected - (intrinsic * pos.contracts * 100)
    ELSE (intrinsic * pos.contracts * 100) - pos.premium_paid

\* variant: a pnl of exactly zero is counted in neither bucket
FoldStats_zero(stats, pnl) ==
    LET s1 == [stats EXCEPT !.total_trades = @ + 1, !.total_pnl = @ + pnl]
    IN  IF pnl > 0
        THEN [s1 EXCEPT !.winning_trades = @ + 1,
                        !.largest_win = IF pnl > @ THEN pnl ELSE @]
        ELSE IF pnl < 0
        THEN [s1 EXCEPT !.losing_trades = @ + 1,
                        !.largest_loss = IF pnl < @ THEN pnl ELSE @]
        ELSE s1

\* variant: total_pnl accumulated in the winning branch only
FoldStats_winpnl(stats, pnl) ==
    LET s1 == [stats EXCEPT !.total_trades = @ + 1]
    IN  IF pnl > 0
        THEN [s1 EXCEPT !.winning_trades = @ + 1, !.total_pnl = @ + pnl,
                        !.largest_win = IF pnl > @ THEN pnl ELSE @]
        ELSE [s1 EXCEPT !.losing_trades = @ + 1,
                        !.largest_loss = IF pnl < @ THEN pnl ELSE @]

\* variant: a pnl of exactly zero is counted as a win
FoldStats_geq(stats, pnl) ==
    LET s1 == [stats EXCEPT !.total_trades = @ + 1, !.total_pnl = @ + pnl]
    IN  IF pnl >= 0
        THEN [s1 EXCEPT !.winning_trades = @ + 1,
                        !.largest_win = IF pnl > @ THEN pnl ELSE @]
        ELSE [s1 EXCEPT !.losing_trades = @ + 1,
                        !.largest_loss = IF pnl < @ THEN pnl ELSE @]

FoldStats(stats, pnl) ==
    LET s1 == [stats EXCEPT !.total_trades = @ + 1, !.total_pnl = @ + pnl]
    IN  IF pnl > 0
        THEN [s1 EXCEPT !.winning_trades = @ + 1,
                        !.largest_win = IF pnl > @ THEN pnl ELSE @]
        ELSE [s1 EXCEPT !.losing_trades = @ + 1,
                        !.largest_loss = IF pnl < @ THEN pnl ELSE @]

\* variant: the status is not set on closing
ClosedTrade_open(pos, day, current_price, intrinsic, pnl) ==
    [id |-> pos.id,
     entry_date |-> pos.entry_date,
     ticker |-> pos.ticker,
     action |-> pos.action,
     strike |-> pos.strike,
     expiration |-> pos.expiration,
     contracts |-> pos.contracts,
     entry_price |-> pos.entry_price,
     premium_collected |-> pos.premium_collected,
     premium_paid |-> pos.premium_paid,
     entry_stock_price |-> pos.entry_stock_price,
     entry_iv |-> pos.entry_iv,
     status |-> pos.status,
     days_held |-> pos.days_held,
     current_pnl |-> pos.current_pnl,
     exit_date |-> day,
     exit_stock_price |-> current_price,
     intrinsic_value |-> intrinsic,
     pnl |-> pnl]

ClosedTrade(pos, day, current_price, intrinsic, pnl) ==
    [id |-> pos.id,
     entry_date |-> pos.entry_date,
     ticker |-> pos.ticker,
     action |-> pos.action,
     strike |-> pos.strike,
     expiration |-> pos.expiration,
     contracts |-> pos.contracts,
     entry_price |-> pos.entry_price,
     premium_collected |-> pos.premium_collected,
     premium_paid |-> pos.premium_paid,
     entry_stock_price |-> pos.entry_stock_price,
     entry_iv |-> pos.entry_iv,
     status |-> "CLOSED",
     days_held |-> pos.days_held,
     current_pnl |-> pos.current_pnl,
     exit_date |-> day,
     exit_stock_price |-> current_price,
     intrinsic_value |-> intrinsic,
     pnl |-> pnl]

\* one position closed: stats folded, cash updated, trade moved to closed_trades
ApplyClose(pf, pos, day, current_price) ==
    LET intrinsic == Intrinsic(current_price, pos.strike)
        pnl == ClosePnl(pos, intrinsic)
    IN  [pf EXCEPT
            !.performance_stats = FoldStats(@, pnl),
            !.current_cash = @ + pnl,
            !.closed_trades = Append(@, ClosedTrade(pos, day, current_price, intrinsic, pnl))]

\* what the loop does with a position that is kept
KeepPosition(new_positions, pos) == Append(new_positions, pos)

\* variant: the list of open positions is not replaced
FinishUpdate_keep(pf, new_positions) == pf

\* self.portfolio['positions'] = new_positions
FinishUpdate(pf, new_positions) == [pf EXCEPT !.positions = new_positions]

\* the loop over portfolio['positions'], from index i on
RECURSIVE UpdateLoop(_, _, _, _, _)
UpdateLoop(pf, new_positions, i, day, spot) ==
    IF i > Len(pf.positions)
    THEN FinishUpdate(pf, new_positions)
    ELSE LET pos == [pf.positions[i] EXCEPT !.days_held = day - pf.positions[i].entry_date]
         IN  IF IsExpired(day, pos)
             THEN UpdateLoop(ApplyClose(pf, pos, day, spot[pos.ticker]),
                             new_positions, i + 1, day, spot)
             ELSE UpdateLoop(pf, KeepPosition(new_positions, pos), i + 1, day, spot)

update_positions(pf, day, spot) == UpdateLoop(pf, <<>>, 1, day, spot)

----------------------------------------------------------------------------
(* update_daily_snapshot *)

\* (expiration - now).days: now is past midnight, so the day count is floored
days_to_exp(pos, day) == pos.expiration - day - 1

\* T = max(days_to_exp / 365, 0.001), in units of 1/365000 year
TimeToExp(pos, day) == Max(days_to_exp(pos, day) * 1000, 365)

option_value(pos, day, spot, cf) ==
    black_scholes(spot[pos.ticker], pos.strike, TimeToExp(pos, day), pos.entry_iv, "call", cf)

\* variant: a SELL position is added like a BUY position
SignedValue_unsigned(pos, value) == value * pos.contracts * 100

\* signed mark-to-market value of one position: SELL a liability, BUY an asset
SignedValue(pos, value) ==
    IF pos.action = "SELL"
    THEN 0 - value * pos.contracts * 100
    ELSE value * pos.contracts * 100

\* the loop over positions: cfs[i] is the closed-form value for positions[i]
RECURSIVE PositionsValue(_, _, _, _, _)
PositionsValue(positions, i, day, spot, cfs) ==
    IF i = 0 THEN 0
    ELSE PositionsValue(positions, i - 1, day, spot, cfs)
         + SignedValue(positions[i], option_value(positions[i], day, spot, cfs[i]))

PortfolioValue(cash, positions_value) == cash + positions_value

\* round(shares * current_price, 2) with shares = alloc / price, exactly
BenchmarkValue(shares, current_price) ==
    LET n  == (shares.alloc \div Dollar) * current_price
        q  == n \div shares.price
        r  == n % shares.price
        c  == (r * 100) \div shares.price
        r2 == (r * 100) % shares.price
        up == IF 2 * r2 > shares.price THEN 1
              ELSE IF 2 * r2 < shares.price THEN 0
              ELSE c % 2
    IN  q * Dollar + (c + up) * Cent

\* variant: the share counts are recomputed at every snapshot
SharesAfterSnapshot_always(pf, spot) == [t \in TickerSet |-> Shares(spot[t])]

\* benchmark_shares after the loop over tickers
SharesAfterSnapshot(pf, spot) ==
    IF Len(pf.daily_snapshots) = 1
    THEN [t \in TickerSet |-> Shares(spot[t])]
    ELSE pf.benchmark_shares

Snapshot(pf, day, positions_value, shares, spot) ==
    [date |-> day,
     portfolio_value |-> Round2(PortfolioValue(pf.current_cash, positions_value)),
     cash |-> Round2(pf.current_cash),
     positions_value |-> Round2(positions_value),
     benchmarks |-> [t \in TickerSet |-> BenchmarkValue(shares[t], spot[t])]]

\* variant: the snapshot takes the place of the latest one
update_daily_snapshot_replace(pf, day, spot, cfs) ==
    LET positions_value == PositionsValue(pf.positions, Len(pf.positions), day, spot, cfs)
        shares == SharesAfterSnapshot(pf, spot)
    IN  [pf EXCEPT
            !.benchmark_shares = shares,
            !.daily_snapshots =
                Append(SubSeq(@, 1, Len(@) - 1),
                       Snapshot(pf, day, positions_value, shares, spot))]

update_daily_snapshot(pf, day, spot, cfs) ==
    LET positions_value == PositionsValue(pf.positions, Len(pf.positions), day, spot, cfs)
        shares == SharesAfterSnapshot(pf, spot)
    IN  [pf EXCEPT
            !.benchmark_shares = shares,
            !.daily_snapshots = Append(@, Snapshot(pf, day, positions_value, shares, spot))]

----------------------------------------------------------------------------
(* find_option_opportunity *)

\* thresholds of the scan: volatilities in percent, ratios in percent
target_dte == 30

min_volume == 10

min_bid == 10 * Cent

min_iv_edge == 3

min_price_edge == 5

min_moneyness == 105

max_moneyness == 115

\* (exp_date - today).days with today = pd.Timestamp.now(), past midnight
Dte(exp, day) == exp - day - 1

\* the loop over expirations: closest to 30 days, dte > 0, first seen on ties
RECURSIVE TargetLoop(_, _, _, _, _)
TargetLoop(expirations, i, day, min_diff, target_exp) ==
    IF i > Len(expirations) THEN target_exp
    ELSE LET dte == Dte(expirations[i], day)
         IN  IF (min_diff = <<>> \/ Abs(dte - target_dte) < min_diff[1]) /\ dte > 0
             THEN TargetLoop(expirations, i + 1, day, <<Abs(dte - target_dte)>>, <<expirations[i]>>)
             ELSE TargetLoop(expirations, i + 1, day, min_diff, target_exp)

\* <<>> for None, <<exp>> otherwise; min_diff = <<>> stands for float('inf')
TargetExpiration(expirations, day) == TargetLoop(expirations, 1, day, <<>>, <<>>)

IsLiquid(row) == row.volume > min_volume /\ row.bid > min_bid

\* variant: only the upper limit of the band is tested
OutOfBand_upper(K, current_price) == K * 100 > max_moneyness * current_price

\* moneyness = K / current_price outside [1.05, 1.15]
OutOfBand(K, current_price) ==
    \/ K * 100 < min_moneyness * current_price
    \/ K * 100 > max_moneyness * current_price

\* twice the market mid (bid + ask) / 2, to stay in whole units
MidX2(row) == row.bid + row.ask

\* variant: one of the two edges is enough
Qualifies_either(row, hist_vol, theo_price) ==
    \/ row.impliedVolatility - hist_vol > min_iv_edge
    \/ /\ theo_price > 0
       /\ (MidX2(row) - 2 * theo_price) * 100 > min_price_edge * 2 * theo_price

\* iv_edge > 0.03 and price_edge_pct > 0.05, price_edge_pct being 0 when theo <= 0
Qualifies(row, hist_vol, theo_price) ==
    /\ row.impliedVolatility - hist_vol > min_iv_edge
    /\ theo_price > 0
    /\ (MidX2(row) - 2 * theo_price) * 100 > min_price_edge * 2 * theo_price

Opportunity(ticker, row, target_exp, current_price, hist_vol, theo_price, day) ==
    [ticker |-> ticker,
     action |-> "SELL",
     strike |-> row.strike,
     expiration |-> target_exp,
     price |-> row.bid,
     market_mid_x2 |-> MidX2(row),
     theoretical |-> theo_price,
     iv |-> row.impliedVolatility,
     hv |-> hist_vol,
     iv_edge |-> row.impliedVolatility - hist_vol,
     price_edge_x2 |-> MidX2(row) - 2 * theo_price,
     current_stock_price |-> current_price,
     T |-> Dte(target_exp, day)]

\* the loop over liquid_calls: best is <<>> (None) or <<opportunity>>,
\* best_edge_x2 is twice best_edge
RECURSIVE BestLoop(_, _, _, _, _, _, _, _, _)
BestLoop(ticker, rows, i, target_exp, current_price, hist_vol, day, best_edge_x2, best) ==
    IF i > Len(rows) THEN best
    ELSE LET row == rows[i]
             theo_price == black_scholes(current_price, row.strike, Dte(target_exp, day),
                                         hist_vol, "call", row.cf)
             edge_x2 == MidX2(row) - 2 * theo_price
         IN  IF /\ ~OutOfBand(row.strike, current_price)
                /\ Qualifies(row, hist_vol, theo_price)
                /\ edge_x2 > best_edge_x2
             THEN BestLoop(ticker, rows, i + 1, target_exp, current_price, hist_vol, day, edge_x2,
                           <<Opportunity(ticker, row, target_exp, current_price, hist_vol,
                                         theo_price, day)>>)
             ELSE BestLoop(ticker, rows, i + 1, target_exp, current_price, hist_vol, day,
                           best_edge_x2, best)

\* data: what the market-data provider returns for the ticker in this run
find_option_opportunity(ticker, day, current_price, data) ==
    IF Len(data.expirations) = 0 THEN <<>>
    ELSE LET target_exp == TargetExpiration(data.expirations, day)
         IN  IF target_exp = <<>> THEN <<>>
             ELSE LET liquid_calls == SelectSeq(data.calls, IsLiquid)
                  IN  IF Len(liquid_calls) = 0 THEN <<>>
                      ELSE BestLoop(ticker, liquid_calls, 1, target_exp[1], current_price,
                                    data.hist_vol, day, 0, <<>>)

----------------------------------------------------------------------------
(* Market data of one run: spot prices and, per ticker, expirations, call  *)
(* chain and historical volatility                                         *)

Row(strike, bid, ask, volume, iv, cf) ==
    [strike |-> strike, bid |-> bid, ask |-> ask, volume |-> volume,
     impliedVolatility |-> iv, cf |-> cf]

NoOptions == [expirations |-> <<>>, calls |-> <<>>, hist_vol |-> 20]

\* calls around a spot of 10: one row out of the band, one that qualifies,
\* two below the liquidity floor
ChainNear(day) ==
    [expirations |-> <<day + 1, day + 2>>,
     calls |-> << Row(1040 * Cent, 60 * Cent, 70 * Cent, 100, 40, 30 * Cent),
                  Row(1100 * Cent, 20 * Cent, 30 * Cent, 50, 30, 15 * Cent),
                  Row(1120 * Cent,  8 * Cent, 50 * Cent, 50, 30, 10 * Cent),
                  Row(1140 * Cent, 15 * Cent, 25 * Cent,  5, 30, 10 * Cent) >>,
     hist_vol |-> 20]

\* two qualifying rows, the later one with the larger edge, and a later expiration
ChainFar(day) ==
    [expirations |-> <<day + 3, day + 2>>,
     calls |-> << Row(1100 * Cent, 20 * Cent, 30 * Cent, 50, 30, 15 * Cent),
                  Row(1120 * Cent, 30 * Cent, 40 * Cent, 50, 35, 20 * Cent),
                  Row(1130 * Cent, 12 * Cent, 16 * Cent, 50, 22, 5 * Cent) >>,
     hist_vol |-> 20]

\* calls around a spot of 11 to 13
ChainHigh(day) ==
    [expirations |-> <<day + 2>>,
     calls |-> << Row(1200 * Cent, 25 * Cent, 35 * Cent, 20, 28, 20 * Cent),
                  Row(1400 * Cent, 11 * Cent, 15 * Cent, 11, 30, 0) >>,
     hist_vol |-> 0]

\* only expirations with no whole day left
ChainExpiring(day) ==
    [expirations |-> <<day, day + 1>>,
     calls |-> << Row(1100 * Cent, 20 * Cent, 30 * Cent, 50, 30, 15 * Cent) >>,
     hist_vol |-> 20]

\* two rows with the same edge; rows exactly on the thresholds of the edges
\* (implied volatility 3 points over the historical one, mid 5% over the
\* theoretical price) with larger edges
ChainTie(day) ==
    [expirations |-> <<day + 2>>,
     calls |-> << Row(1080 * Cent, 60 * Cent, 80 * Cent, 50, 23, 20 * Cent),
                  Row(1090 * Cent, 20 * Cent, 22 * Cent, 50, 30, 20 * Cent),
                  Row(1100 * Cent, 20 * Cent, 30 * Cent, 50, 30, 15 * Cent),
                  Row(1120 * Cent, 22 * Cent, 28 * Cent, 50, 30, 15 * Cent),
                  Row(1130 * Cent, 12 * Cent, 16 * Cent, 50, 30, 5 * Cent) >>,
     hist_vol |-> 20]

\* rows exactly on the limits of the moneyness band and of the liquidity floor
ChainEdge(day) ==
    [expirations |-> <<day + 2>>,
     calls |-> << Row(1049 * Cent, 60 * Cent, 80 * Cent, 50, 30, 20 * Cent),
                  Row(1050 * Cent, 11 * Cent, 13 * Cent, 11, 24, 10 * Cent),
                  Row(1100 * Cent, 10 * Cent, 90 * Cent, 50, 30, 15 * Cent),
                  Row(1110 * Cent, 50 * Cent, 60 * Cent, 10, 30, 15 * Cent),
                  Row(1150 * Cent, 11 * Cent, 15 * Cent, 11, 24, 10 * Cent),
                  Row(1151 * Cent, 60 * Cent, 80 * Cent, 50, 30, 20 * Cent) >>,
     hist_vol |-> 20]

\* what the provider can return for one ticker
ChainSet(day) ==
    {NoOptions, ChainNear(day), ChainFar(day), ChainHigh(day), ChainExpiring(day),
     ChainTie(day), ChainEdge(day)}

Feeds(day) ==
    << [spot |-> MarketLadder[1],
        data |-> [t \in TickerSet |-> ChainNear(day)]],
       [spot |-> MarketLadder[2],
        data |-> [t \in TickerSet |->
                    CASE t = "SPY" -> ChainHigh(day)
                      [] t = "VOO" -> NoOptions
                      [] t = "VTI" -> ChainFar(day)
                      [] t = "QQQ" -> ChainHigh(day)]],
       [spot |-> MarketLadder[3],
        data |-> [t \in TickerSet |->
                    CASE t = "SPY" -> ChainFar(day)
                      [] t = "VOO" -> ChainExpiring(day)
                      [] t = "VTI" -> NoOptions
                      [] t = "QQQ" -> ChainNear(day)]],
       [spot |-> MarketLadder[4],
        data |-> [t \in TickerSet |-> NoOptions]] >>

FeedSet(day) == {Feeds(day)[i] : i \in 1..NumMarkets}

----------------------------------------------------------------------------
(* Calls on a PaperTradingPortfolio object, in any order *)

Opp(ticker, action, strike, expiration, price, iv) ==
    [ticker |-> ticker, action |-> action, strike |-> strike,
     expiration |-> expiration, price |-> price,
     current_stock_price |-> 10 * Dollar, iv |-> iv]

ApiOppLadder ==
    << Opp("SPY", "SELL", 11 * Dollar, 1, 20 * Cent, 30),
       Opp("SPY", "SELL", 11 * Dollar, 1, 2 * Cent, 30),
       Opp("VOO", "BUY",  11 * Dollar, 2, 20 * Cent, 0),
       Opp("VOO", "SELL", 11 * Dollar, 2, 20 * Cent, 30),
       Opp("SPY", "SELL", 12 * Dollar, 3, 25 * Cent, 30),
       Opp("QQQ", "BUY",  12 * Dollar, 2, 3 * Cent, 30) >>

ApiOpps == {ApiOppLadder[i] : i \in 1..NumApiOpps}

NoKey == [ticker |-> "-", strike |-> 0, expiration |-> 0, action |-> "-"]

KeyOf(x) ==
    [ticker |-> x.ticker, strike |-> x.strike, expiration |-> x.expiration, action |-> x.action]

Op(name, again, key, ret) == [op |-> name, again |-> again, key |-> key, ret |-> ret]

\* initial_prices: the fetched price, or the fallback when the fetch fails
InitialPrices(spot) == {spot, [t \in TickerSet |-> fallback_price]}

\* trades and snapshots recorded since the portfolio was created
Records(pf) == Len(pf.positions) + Len(pf.closed_trades) + Len(pf.daily_snapshots) - 1

Init ==
    /\ today = 0
    /\ portfolio = initialize_portfolio(0, MarketLadder[1])
    /\ lastOp = Op("init", FALSE, NoKey, TRUE)
    /\ file = <<portfolio>>
    /\ pc = "api"
    /\ scan_i = 0
    /\ total_open_positions = 0
    /\ market = Feeds(0)[1]

CycleUnchanged == UNCHANGED <<file, pc, scan_i, total_open_positions, market>>

\* the calendar moves to the next day
NextDay ==
    /\ today < MaxDay
    /\ today' = today + 1
    /\ lastOp' = Op("next_day", FALSE, NoKey, TRUE)
    /\ UNCHANGED portfolio
    /\ CycleUnchanged

CallExecuteTrade ==
    \E opportunity \in ApiOpps :
        LET res == execute_trade(portfolio, opportunity, today)
        IN  /\ opportunity.expiration > today
            /\ res.ret => Records(portfolio) < MaxRecords
            /\ portfolio' = res.portfolio
            /\ lastOp' = Op("execute_trade", FALSE, KeyOf(opportunity), res.ret)
            /\ UNCHANGED today
            /\ CycleUnchanged

CallUpdatePositions ==
    \E spot \in Markets :
        /\ portfolio' = update_positions(portfolio, today, spot)
        /\ lastOp' = Op("update_positions", lastOp.op = "update_positions", NoKey, TRUE)
        /\ UNCHANGED today
        /\ CycleUnchanged

\* prices get_current_price returns to update_daily_snapshot: unchanged since
\* the portfolio was created, or moved
SnapshotMarkets == {MarketLadder[1], MarketLadder[2]}

CallUpdateDailySnapshot ==
    /\ Records(portfolio) < MaxRecords
    /\ \E spot \in SnapshotMarkets, cfs \in [1..Len(portfolio.positions) -> BSValues] :
          portfolio' = update_daily_snapshot(portfolio, today, spot, cfs)
    /\ lastOp' = Op("update_daily_snapshot", FALSE, NoKey, TRUE)
    /\ UNCHANGED today
    /\ CycleUnchanged

\* the ledger: execute_trade and update_positions called in any order
Next ==
    \/ NextDay
    \/ CallExecuteTrade
    \/ CallUpdatePositions

Spec == Init /\ [][Next]_vars

\* the ledger together with update_daily_snapshot
SnapshotNext ==
    \/ NextDay
    \/ CallExecuteTrade
    \/ CallUpdatePositions
    \/ CallUpdateDailySnapshot

SnapshotSpec == Init /\ [][SnapshotNext]_vars

----------------------------------------------------------------------------
(* The pricing function and the scanner called on their own, on arguments  *)
(* drawn from the sets below; lastOp records the call and what it returned *)

BSSpots == {MarketLadder[i][t] : i \in 1..NumMarkets, t \in TickerSet}

BSStrikes == BSSpots \cup {ApiOppLadder[i].strike : i \in 1..NumApiOpps}

\* T in units of 1/365000 year, as TimeToExp
BSTimes == {0 - 1000, 0, 365, 30000}

\* sigma in percent
BSSigmas == {0 - 5, 0, 20}

CallBlackScholes ==
    /\ \E S \in BSSpots, K \in BSStrikes, T \in BSTimes, sigma \in BSSigmas,
          option_type \in {"call", "put"}, cf \in BSValues :
          lastOp' = [op |-> "black_scholes", S |-> S, K |-> K, T |-> T, sigma |-> sigma,
                     option_type |-> option_type,
                     ret |-> black_scholes(S, K, T, sigma, option_type, cf)]
    /\ UNCHANGED <<portfolio, today>>
    /\ CycleUnchanged

CallFindOptionOpportunity ==
    /\ \E ticker \in TickerSet, day \in 0..MaxDay, current_price \in BSSpots :
          \E data \in ChainSet(day) :
             lastOp' = [op |-> "find_option_opportunity", ticker |-> ticker, day |-> day,
                        current_price |-> current_price, data |-> data,
                        ret |-> find_option_opportunity(ticker, day, current_price, data)]
    /\ UNCHANGED <<portfolio, today>>
    /\ CycleUnchanged

FunctionNext ==
    \/ CallBlackScholes
    \/ CallFindOptionOpportunity

FunctionSpec == Init /\ [][FunctionNext]_vars

----------------------------------------------------------------------------
(* run_daily_update: one run per day, each run a sequence of steps on the   *)
(* portfolio loaded from the data file                                     *)

\* state after the first construction of PaperTradingPortfolio (no data file
\* yet): the portfolio is initialized and saved
InitCycle ==
    /\ today = 0
    /\ \E feed \in FeedSet(0) :
          /\ market = feed
          /\ \E initial_prices \in InitialPrices(feed.spot) :
                portfolio = initialize_portfolio(0, initial_prices)
    /\ file = <<portfolio>>
    /\ lastOp = Op("init", FALSE, NoKey, TRUE)
    /\ pc = "update"
    /\ scan_i = 0
    /\ total_open_positions = 0

\* len([p for p in positions if p['ticker'] == ticker])
TickerPositions(positions, ticker) ==
    Cardinality({i \in 1..Len(positions) : positions[i].ticker = ticker})

\* variant: two positions per ticker allowed
TickerAtCap_two(ticker_positions) == ticker_positions >= max_positions_per_ticker + 1

\* if ticker_positions >= 1: continue
TickerAtCap(ticker_positions) == ticker_positions >= max_positions_per_ticker

\* if total_open_positions >= 4
PortfolioAtCap(n) == n >= max_total_positions

\* the next day's run starts: PaperTradingPortfolio() loads the data file
CycleStart ==
    /\ pc = "done"
    /\ today < MaxDay
    /\ today' = today + 1
    /\ \E feed \in FeedSet(today + 1) : market' = feed
    /\ portfolio' = file[1]
    /\ lastOp' = Op("load", FALSE, NoKey, TRUE)
    /\ pc' = "update"
    /\ UNCHANGED <<file, scan_i, total_open_positions>>

\* Step 1, and the check that skips the scan at 4 open positions
CycleUpdatePositions ==
    /\ pc = "update"
    /\ portfolio' = update_positions(portfolio, today, market.spot)
    /\ total_open_positions' = Len(portfolio'.positions)
    /\ scan_i' = 1
    /\ pc' = IF PortfolioAtCap(total_open_positions') THEN "snapshot" ELSE "scan"
    /\ lastOp' = Op("update_positions", FALSE, NoKey, TRUE)
    /\ UNCHANGED <<today, file, market>>

\* variant: the duplicate test comes first, before the caps
ScanDecision_duplicate_first(pf, ticker, total, opportunity) ==
    IF opportunity # <<>> /\ HasDuplicate(pf.positions, opportunity[1]) THEN "execute_trade"
    ELSE IF TickerAtCap(TickerPositions(pf.positions, ticker)) THEN "skip_ticker"
    ELSE IF PortfolioAtCap(total) THEN "stop_scan"
    ELSE IF opportunity = <<>> THEN "no_opportunity"
    ELSE "execute_trade"

\* the tests of one loop iteration, in the order of the code: per-ticker cap
\* (continue), total cap (break), then the scan and `if opportunity:`
ScanDecision(pf, ticker, total, opportunity) ==
    IF TickerAtCap(TickerPositions(pf.positions, ticker)) THEN "skip_ticker"
    ELSE IF PortfolioAtCap(total) THEN "stop_scan"
    ELSE IF opportunity = <<>> THEN "no_opportunity"
    ELSE "execute_trade"

\* what the scan of one ticker returns: an exception raised by a market-data
\* lookup inside find_option_opportunity is caught there and None is returned
ScanResult(ticker, day, feed, lookup_fails) ==
    IF lookup_fails THEN <<>>
    ELSE find_option_opportunity(ticker, day, feed.spot[ticker], feed.data[ticker])

\* Step 2: one iteration of the loop over portfolio.tickers
ScanStep(lookup_fails) ==
    /\ LET ticker == tickers[scan_i]
           opportunity == ScanResult(ticker, today, market, lookup_fails)
           decision == ScanDecision(portfolio, ticker, total_open_positions, opportunity)
           afterLoop == IF scan_i = Len(tickers) THEN "snapshot" ELSE "scan"
       IN  /\ lookup_fails => decision = "no_opportunity"
           /\ CASE decision = "skip_ticker" ->
                     /\ pc' = afterLoop
                     /\ lastOp' = Op("skip_ticker", FALSE, NoKey, TRUE)
                     /\ UNCHANGED <<portfolio, total_open_positions>>
                [] decision = "stop_scan" ->
                     /\ pc' = "snapshot"
                     /\ lastOp' = Op("stop_scan", FALSE, NoKey, TRUE)
                     /\ UNCHANGED <<portfolio, total_open_positions>>
                [] decision = "no_opportunity" ->
                     /\ pc' = afterLoop
                     /\ lastOp' = Op(IF lookup_fails THEN "lookup_failed" ELSE "no_opportunity",
                                     FALSE, [NoKey EXCEPT !.ticker = ticker], TRUE)
                     /\ UNCHANGED <<portfolio, total_open_positions>>
                [] decision = "execute_trade" ->
                     LET res == execute_trade(portfolio, opportunity[1], today)
                     IN  /\ portfolio' = res.portfolio
                         /\ total_open_positions' =
                               IF res.ret THEN total_open_positions + 1
                               ELSE total_open_positions
                         /\ pc' = afterLoop
                         /\ lastOp' = Op("execute_trade", FALSE, KeyOf(opportunity[1]), res.ret)
    /\ scan_i' = scan_i + 1
    /\ UNCHANGED <<today, file, market>>

CycleScanTicker == pc = "scan" /\ ScanStep(FALSE)

\* Step 3, the closed form returning one of `values` for each position
SnapshotStep(values) ==
    /\ \E cfs \in [1..Len(portfolio.positions) -> values] :
          portfolio' = update_daily_snapshot(portfolio, today, market.spot, cfs)
    /\ lastOp' = Op("update_daily_snapshot", FALSE, NoKey, TRUE)
    /\ pc' = "save"
    /\ UNCHANGED <<today, file, scan_i, total_open_positions, market>>

CycleSnapshot == pc = "snapshot" /\ SnapshotStep(BSValues)

\* Step 4: save_portfolio writes the whole document; the report only reads
CycleSave ==
    /\ pc = "save"
    /\ file' = <<portfolio>>
    /\ lastOp' = Op("save_portfolio", FALSE, NoKey, TRUE)
    /\ pc' = "done"
    /\ UNCHANGED <<portfolio, today, scan_i, total_open_positions, market>>

CycleNext ==
    \/ CycleStart
    \/ CycleUpdatePositions
    \/ CycleScanTicker
    \/ CycleSnapshot
    \/ CycleSave

CycleSpec == InitCycle /\ [][CycleNext]_vars

----------------------------------------------------------------------------
(* run_daily_update with failures: a market-data lookup that raises, a      *)
(* save that is interrupted, and a run repeated on the same day.  The data  *)
(* file is <<document>>, or <<>> when it holds no complete JSON document    *)
(* (open(data_file, 'w') has emptied it and json.dump has not finished).    *)

\* the completed runs recorded in a document: each appends one snapshot
Runs(pf) == Len(pf.daily_snapshots) - 1

\* a run starts, on the same day again or on the next day: the constructor
\* finds the data file and json.load reads it, raising on an incomplete one
FaultStart ==
    /\ pc \in {"done", "aborted"}
    /\ \E day \in {today, today + 1} :
          /\ day <= MaxDay
          /\ (day = today /\ pc = "done")
                => Runs(file[1]) < MaxRuns
          /\ today' = day
          /\ \E feed \in FeedSet(day) : market' = feed
          /\ IF file = <<>>
             THEN /\ pc' = "aborted"
                  /\ lastOp' = Op("load_failed", day = today, NoKey, FALSE)
                  /\ UNCHANGED portfolio
             ELSE /\ pc' = "update"
                  /\ lastOp' = Op("load", day = today, NoKey, TRUE)
                  /\ portfolio' = file[1]
    /\ scan_i' = 0
    /\ total_open_positions' = 0
    /\ UNCHANGED file

\* the tickers whose market-data lookups raise in the runs modelled: the
\* first of the scan, so that the scan has tickers left to evaluate
DownTickers == {tickers[1]}

\* the run ends with the exception; what it changed in memory is lost
Abort(name, ticker) ==
    /\ pc' = "aborted"
    /\ lastOp' = Op(name, FALSE, [NoKey EXCEPT !.ticker = ticker], FALSE)
    /\ UNCHANGED <<portfolio, today, file, scan_i, total_open_positions, market>>

\* Step 1: get_current_price raises for a position being closed
FaultUpdatePositions ==
    /\ pc = "update"
    /\ \E i \in 1..Len(portfolio.positions) :
          /\ IsExpired(today, portfolio.positions[i])
          /\ Abort("price_failed", portfolio.positions[i].ticker)

\* Step 2: a lookup raises inside find_option_opportunity
FaultScanTicker == pc = "scan" /\ tickers[scan_i] \in DownTickers /\ ScanStep(TRUE)

\* Step 3 of a run that can fail: the ledger does not depend on the option
\* values, and one closed-form value is enough
FaultCycleSnapshot == pc = "snapshot" /\ SnapshotStep({4})

\* Step 3: get_current_price raises in the loop over positions or tickers
FaultSnapshot ==
    /\ pc = "snapshot"
    /\ \E ticker \in DownTickers : Abort("price_failed", ticker)

\* Step 4, first half: open(data_file, 'w') empties the file
FaultSaveOpen ==
    /\ pc = "save"
    /\ file' = <<>>
    /\ pc' = "saving"
    /\ lastOp' = Op("open", FALSE, NoKey, TRUE)
    /\ UNCHANGED <<portfolio, today, scan_i, total_open_positions, market>>

\* Step 4, second half: json.dump writes the whole document
FaultSaveDump ==
    /\ pc = "saving"
    /\ file' = <<portfolio>>
    /\ pc' = "done"
    /\ lastOp' = Op("save_portfolio", FALSE, NoKey, TRUE)
    /\ UNCHANGED <<portfolio, today, scan_i, total_open_positions, market>>

\* Step 4: the write is interrupted (I/O error, process killed)
FaultSaveFails ==
    /\ pc = "saving"
    /\ Abort("save_failed", "-")

FaultNext ==
    \/ FaultStart
    \/ CycleUpdatePositions
    \/ FaultUpdatePositions
    \/ CycleScanTicker
    \/ FaultScanTicker
    \/ FaultCycleSnapshot
    \/ FaultSnapshot
    \/ FaultSaveOpen
    \/ FaultSaveDump
    \/ FaultSaveFails

FaultSpec == InitCycle /\ [][FaultNext]_vars

----------------------------------------------------------------------------
(* Properties *)

RECURSIVE SumPremiumCollected(_)
SumPremiumCollected(trades) ==
    IF trades = <<>> THEN 0
    ELSE trades[1].premium_collected + SumPremiumCollected(Tail(trades))

RECURSIVE SumPremiumPaid(_)
SumPremiumPaid(trades) ==
    IF trades = <<>> THEN 0
    ELSE trades[1].premium_paid + SumPremiumPaid(Tail(trades))

\* intrinsic x contracts x 100 over the closed trades of one side
RECURSIVE SumExit(_, _)
SumExit(closed, action) ==
    IF closed = <<>> THEN 0
    ELSE (IF closed[1].action = action
          THEN closed[1].intrinsic_value * closed[1].contracts * 100
          ELSE 0) + SumExit(Tail(closed), action)

RECURSIVE SumPnl(_)
SumPnl(closed) ==
    IF closed = <<>> THEN 0 ELSE closed[1].pnl + SumPnl(Tail(closed))

Range(seq) == {seq[i] : i \in 1..Len(seq)}

IsPrefix(s, t) == Len(s) <= Len(t) /\ \A i \in 1..Len(s) : s[i] = t[i]

AllTrades == portfolio.positions \o portfolio.closed_trades

\* C1: current_cash equals initial_capital + sum of premium_collected over
\* every position ever opened - sum of premium_paid over every position ever
\* opened - exit payouts of closed SELL positions + exit proceeds of closed
\* BUY positions.
C1_CashConservation ==
    portfolio.current_cash =
        initial_capital
        + SumPremiumCollected(AllTrades)
        - SumPremiumPaid(AllTrades)
        - SumExit(portfolio.closed_trades, "SELL")
        + SumExit(portfolio.closed_trades, "BUY")

\* C2: the pnl recorded on a closed SELL trade is premium_collected -
\* max(spot - strike, 0) x contracts x 100: exactly premium_collected when
\* spot <= strike, premium_collected - (spot - strike) x contracts x 100 when
\* spot > strike.
C2_SellPnl ==
    \A c \in Range(portfolio.closed_trades) :
        c.action = "SELL" =>
            /\ c.pnl = c.premium_collected
                       - Max(c.exit_stock_price - c.strike, 0) * c.contracts * 100
            /\ c.exit_stock_price <= c.strike => c.pnl = c.premium_collected
            /\ c.exit_stock_price > c.strike =>
                  c.pnl = c.premium_collected
                          - (c.exit_stock_price - c.strike) * c.contracts * 100

C2_Witness ==
    /\ \E c \in Range(portfolio.closed_trades) :
          c.action = "SELL" /\ c.exit_stock_price > c.strike /\ c.pnl < c.premium_collected
    /\ \E c \in Range(portfolio.closed_trades) :
          c.action = "SELL" /\ c.exit_stock_price <= c.strike

\* C3: a second update_positions on the same date, directly after the first,
\* leaves the whole portfolio (positions, closed_trades, current_cash,
\* performance_stats) unchanged.
C3_UpdateIdempotent ==
    [][(/\ lastOp.op = "update_positions"
        /\ lastOp'.op = "update_positions"
        /\ today' = today) => portfolio' = portfolio]_vars

C3_Witness ==
    /\ lastOp.op = "update_positions"
    /\ lastOp.again
    /\ \E c \in Range(portfolio.closed_trades) : c.exit_date = today
    /\ portfolio.positions # <<>>

\* C4: total_trades = winning_trades + losing_trades = number of closed trades.
C4_StatsCount ==
    /\ portfolio.performance_stats.total_trades
         = portfolio.performance_stats.winning_trades
           + portfolio.performance_stats.losing_trades
    /\ portfolio.performance_stats.total_trades = Len(portfolio.closed_trades)

C4_Witness ==
    /\ \E c \in Range(portfolio.closed_trades) : c.pnl > 0
    /\ \E c \in Range(portfolio.closed_trades) : c.pnl = 0

\* C5: total_pnl is the sum of pnl over closed_trades, and performance_stats
\* changes only in a step that closes a position.
C5_TotalPnl ==
    /\ [](portfolio.performance_stats.total_pnl = SumPnl(portfolio.closed_trades))
    /\ [][portfolio'.performance_stats # portfolio.performance_stats
            => Len(portfolio'.closed_trades) > Len(portfolio.closed_trades)]_vars

C5_Witness ==
    /\ Len(portfolio.closed_trades) = 2
    /\ portfolio.closed_trades[1].pnl > 0
    /\ portfolio.performance_stats.total_pnl < 0

\* C6: execute_trade on an opportunity whose (ticker, strike, expiration,
\* action) equals that of an open position returns False and changes nothing;
\* no two open positions share (ticker, strike, expiration, action).
C6_NoDuplicate ==
    /\ [](\A i, j \in 1..Len(portfolio.positions) :
            KeyOf(portfolio.positions[i]) = KeyOf(portfolio.positions[j]) => i = j)
    /\ [][(/\ lastOp'.op = "execute_trade"
           /\ \E pos \in Range(portfolio.positions) : KeyOf(pos) = lastOp'.key)
          => (~lastOp'.ret /\ portfolio' = portfolio)]_vars

C6_Witness ==
    /\ lastOp.op = "execute_trade"
    /\ ~lastOp.ret
    /\ \E pos \in Range(portfolio.positions) :
          /\ KeyOf(pos) = lastOp.key
          /\ pos.entry_price = 20 * Cent
    /\ portfolio.current_cash > initial_capital
    /\ Len(portfolio.positions) = 1

\* the positions update_positions must keep on date `day`: those expiring later
StillOpen(positions, day) == SelectSeq(positions, LAMBDA p : p.expiration > day)

\* C8: update_positions closes exactly the positions whose expiration is on
\* or before the current date, never one that expires later; a position that
\* expires later stays in the open list, in order, with only days_held changed.
C8_CloseAtExpiration ==
    /\ [](\A c \in Range(portfolio.closed_trades) : c.exit_date >= c.expiration)
    /\ [][lastOp'.op = "update_positions" =>
            LET kept == StillOpen(portfolio.positions, today)
            IN  /\ Len(portfolio'.positions) = Len(kept)
                /\ \A i \in 1..Len(kept) :
                      portfolio'.positions[i]
                        = [kept[i] EXCEPT !.days_held = today - kept[i].entry_date]
                /\ Len(portfolio'.closed_trades)
                     = Len(portfolio.closed_trades)
                       + Len(portfolio.positions) - Len(kept)
                /\ \A i \in (Len(portfolio.closed_trades) + 1)..Len(portfolio'.closed_trades) :
                      /\ portfolio'.closed_trades[i].exit_date = today
                      /\ portfolio'.closed_trades[i].expiration <= today]_vars

C8_Witness ==
    /\ lastOp.op = "update_positions"
    /\ ~lastOp.again
    /\ \E c \in Range(portfolio.closed_trades) : c.exit_date = today /\ c.expiration = today
    /\ \E pos \in Range(portfolio.positions) : pos.days_held > 0 /\ pos.expiration > today

TradeIds(trades) == {trades[i].id : i \in 1..Len(trades)}

\* C9: every open position has status OPEN, every closed trade status CLOSED,
\* no trade is in both lists; closed_trades only grows at its end, its entries
\* are never changed or removed, and a closed trade never returns to positions.
C9_Lifecycle ==
    /\ [](/\ \A pos \in Range(portfolio.positions) : pos.status = "OPEN"
          /\ \A c \in Range(portfolio.closed_trades) : c.status = "CLOSED"
          /\ TradeIds(portfolio.positions) \cap TradeIds(portfolio.closed_trades) = {})
    /\ [][/\ IsPrefix(portfolio.closed_trades, portfolio'.closed_trades)
          /\ TradeIds(portfolio.closed_trades) \cap TradeIds(portfolio'.positions) = {}]_vars

C9_Witness ==
    /\ portfolio.closed_trades # <<>>
    /\ portfolio.positions # <<>>
    /\ lastOp.op = "execute_trade"
    /\ lastOp.ret
    /\ Last(portfolio.positions).entry_date >= Last(portfolio.closed_trades).exit_date

\* C10 as stated: on the recorded fields of every snapshot,
\* portfolio_value = cash + positions_value.
C10_SnapshotSumExact ==
    \A s \in Range(portfolio.daily_snapshots) :
        s.portfolio_value = s.cash + s.positions_value

\* C10 (amended): the three recorded fields are each rounded to the cent, so
\* portfolio_value differs from cash + positions_value by at most one cent;
\* the recorded cash is current_cash rounded to the cent, and positions_value
\* is not positive when only SELL positions are open and not negative when
\* only BUY positions are open.
C10_SnapshotSumRounded ==
    /\ \A s \in Range(portfolio.daily_snapshots) :
          Abs(s.portfolio_value - (s.cash + s.positions_value)) <= Cent
    /\ lastOp.op = "update_daily_snapshot" =>
          LET s == Last(portfolio.daily_snapshots)
          IN  /\ s.cash = Round2(portfolio.current_cash)
              /\ (\A pos \in Range(portfolio.positions) : pos.action = "SELL")
                    => s.positions_value <= 0
              /\ (\A pos \in Range(portfolio.positions) : pos.action = "BUY")
                    => s.positions_value >= 0
              /\ Abs(s.portfolio_value - (portfolio.current_cash + s.positions_value)) <= Cent

C10_Witness ==
    /\ lastOp.op = "update_daily_snapshot"
    /\ portfolio.positions # <<>>
    /\ LET s == Last(portfolio.daily_snapshots)
       IN  /\ s.positions_value < 0
           /\ s.portfolio_value # s.cash + s.positions_value

CapsHold(pf) ==
    /\ Len(pf.positions) <= 4
    /\ \A i \in 1..Len(tickers) : TickerPositions(pf.positions, tickers[i]) <= 1

\* C7: in every state of every run of run_daily_update, in memory and in the
\* saved document, at most 4 positions are open and at most 1 per ticker.
C7_PositionCaps == CapsHold(portfolio) /\ CapsHold(file[1])

C7_Witness ==
    /\ pc = "done"
    /\ Len(file[1].positions) = 4
    /\ file[1].closed_trades # <<>>

\* C11: whatever step a run fails in, save_portfolio included, the data file
\* holds a complete document once the run has ended, and no step but the save
\* changes the file.
C11_AtomicPersistence ==
    /\ [](pc \in {"done", "aborted"} => Len(file) = 1)
    /\ [][file' # file => pc \in {"save", "saving"}]_vars

\* C12: a market-data lookup that fails for one ticker never ends the run:
\* the failing ticker yields no opportunity and the run goes on with the next
\* ticker or the next step.
C12_FailureIsolation ==
    [][lastOp'.op \in {"lookup_failed", "price_failed"}
         => /\ pc' # "aborted"
            /\ pc = "scan" => /\ scan_i' = scan_i + 1
                              /\ pc' = IF scan_i = Len(tickers) THEN "snapshot" ELSE "scan"
                              /\ portfolio' = portfolio]_vars

\* every trade of a document once: no id twice among the open and closed
\* trades, no two trades for the same contract entered on the same date, and
\* the cash holds each premium once from the opening and each closing pnl once
AppliedOnce(pf) ==
    LET all == pf.positions \o pf.closed_trades
    IN  /\ \A i, j \in 1..Len(all) :
              (all[i].id = all[j].id
               \/ (KeyOf(all[i]) = KeyOf(all[j]) /\ all[i].entry_date = all[j].entry_date))
                 => i = j
        /\ pf.current_cash = initial_capital + SumPremiumCollected(all)
                             - SumPremiumPaid(all) + SumPnl(pf.closed_trades)

\* the run in progress has loaded a document saved by a completed run of today
RerunOfSaved ==
    /\ Len(file) = 1
    /\ Len(file[1].daily_snapshots) > 1
    /\ Last(file[1].daily_snapshots).date = today

\* C13: a run repeated on the same date, from the document the first run
\* saved or from the older one when the first run ended before saving, applies
\* no trade twice: in memory and in the data file every trade is there once
\* and its premium is in the cash once; a run repeated from the saved document
\* closes nothing and opens nothing for a ticker that has an open position.
C13_RerunAppliesOnce ==
    /\ [](AppliedOnce(portfolio) /\ (Len(file) = 1 => AppliedOnce(file[1])))
    /\ [][(RerunOfSaved /\ pc \in {"update", "scan"})
            => /\ portfolio'.closed_trades = portfolio.closed_trades
               /\ IsPrefix(portfolio.positions, portfolio'.positions)
               /\ \A i \in (Len(portfolio.positions) + 1)..Len(portfolio'.positions) :
                     /\ \A j \in 1..Len(portfolio.positions) :
                           portfolio.positions[j].ticker # portfolio'.positions[i].ticker
                     /\ portfolio'.current_cash
                          = portfolio.current_cash + portfolio'.positions[i].premium_collected
               /\ Len(portfolio'.positions) = Len(portfolio.positions)
                     => portfolio'.current_cash = portfolio.current_cash]_vars

C13_Witness ==
    /\ pc = "done"
    /\ lastOp.op = "save_portfolio"
    /\ Len(file[1].daily_snapshots) > 2
    /\ file[1].daily_snapshots[Len(file[1].daily_snapshots) - 1].date = today
    /\ \E c \in Range(file[1].closed_trades) : c.exit_date = today
    /\ \E pos \in Range(file[1].positions) : pos.entry_date = today

\* the rows of the chain an opportunity can have been made from
SourceRows(o, calls) ==
    {i \in 1..Len(calls) :
        /\ calls[i].strike = o.strike
        /\ calls[i].bid = o.price
        /\ calls[i].bid + calls[i].ask = o.market_mid_x2
        /\ calls[i].impliedVolatility = o.iv}

\* C14: an opportunity returned by find_option_opportunity has strike/spot in
\* [1.05, 1.15] and is made from a contract with volume > 10 and bid > 0.10.
C14_BandAndLiquidity ==
    (lastOp.op = "find_option_opportunity" /\ lastOp.ret # <<>>) =>
        LET o == lastOp.ret[1]
            rows == SourceRows(o, lastOp.data.calls)
        IN  /\ o.current_stock_price = lastOp.current_price
            /\ o.strike * 100 >= 105 * lastOp.current_price
            /\ o.strike * 100 <= 115 * lastOp.current_price
            /\ rows # {}
            /\ \A i \in rows : /\ lastOp.data.calls[i].volume > 10
                                /\ lastOp.data.calls[i].bid > 10 * Cent

\* an opportunity is returned although the chain has a row out of the band
\* and a row under the liquidity floor, each with a larger edge
C14_Witness ==
    /\ lastOp.op = "find_option_opportunity"
    /\ lastOp.ret # <<>>
    /\ lastOp.data.hist_vol > 0
    /\ \E r \in Range(lastOp.data.calls) :
          /\ r.strike * 100 < 105 * lastOp.current_price
          /\ r.bid + r.ask - 2 * r.cf > lastOp.ret[1].price_edge_x2
    /\ \E r \in Range(lastOp.data.calls) :
          /\ r.volume <= 10 \/ r.bid <= 10 * Cent
          /\ r.strike * 100 >= 105 * lastOp.current_price
          /\ r.strike * 100 <= 115 * lastOp.current_price
          /\ r.bid + r.ask - 2 * r.cf > lastOp.ret[1].price_edge_x2

\* C15: with T <= 0 or sigma <= 0 black_scholes returns the intrinsic value,
\* max(S - K, 0) for a call and max(K - S, 0) for a put, never negative.
C15_DegenerateIntrinsic ==
    (lastOp.op = "black_scholes" /\ (lastOp.T <= 0 \/ lastOp.sigma <= 0)) =>
        /\ lastOp.option_type = "call" =>
              lastOp.ret = (IF lastOp.S > lastOp.K THEN lastOp.S - lastOp.K ELSE 0)
        /\ lastOp.option_type = "put" =>
              lastOp.ret = (IF lastOp.K > lastOp.S THEN lastOp.K - lastOp.S ELSE 0)
        /\ lastOp.ret >= 0

C15_Witness ==
    /\ lastOp.op = "black_scholes"
    /\ lastOp.T <= 0
    /\ lastOp.sigma > 0
    /\ lastOp.option_type = "put"
    /\ lastOp.ret > 0
    /\ lastOp.ret \notin BSValues

\* the scan recorded in lastOp: chain, theoretical price and edge (twice the
\* dollar edge mid - theoretical) of row i, and the rows that are candidates
ScanCalls == lastOp.data.calls

ScanHasChain == TargetExpiration(lastOp.data.expirations, lastOp.day) # <<>>

ScanTheo(i) ==
    black_scholes(lastOp.current_price, ScanCalls[i].strike,
                  Dte(TargetExpiration(lastOp.data.expirations, lastOp.day)[1], lastOp.day),
                  lastOp.data.hist_vol, "call", ScanCalls[i].cf)

ScanEdgeX2(i) == ScanCalls[i].bid + ScanCalls[i].ask - 2 * ScanTheo(i)

\* liquid, in the band, implied volatility more than 0.03 over the historical
\* one and mid more than 5% over a positive theoretical price
ScanCandidates ==
    IF ~ScanHasChain THEN {}
    ELSE {i \in 1..Len(ScanCalls) :
            /\ ScanCalls[i].volume > 10
            /\ ScanCalls[i].bid > 10 * Cent
            /\ ScanCalls[i].strike * 100 >= 105 * lastOp.current_price
            /\ ScanCalls[i].strike * 100 <= 115 * lastOp.current_price
            /\ ScanCalls[i].impliedVolatility - lastOp.data.hist_vol > 3
            /\ ScanTheo(i) > 0
            /\ ScanEdgeX2(i) * 100 > 5 * 2 * ScanTheo(i)}

\* C19: find_option_opportunity returns None exactly when no candidate
\* exceeds both thresholds; otherwise it returns the candidate with the
\* largest dollar edge, the earliest in chain order among those that tie.
C19_BestCandidate ==
    lastOp.op = "find_option_opportunity" =>
        /\ lastOp.ret = <<>> <=> ScanCandidates = {}
        /\ lastOp.ret # <<>> =>
              \E i \in ScanCandidates :
                 /\ lastOp.ret[1].strike = ScanCalls[i].strike
                 /\ lastOp.ret[1].price = ScanCalls[i].bid
                 /\ lastOp.ret[1].iv = ScanCalls[i].impliedVolatility
                 /\ lastOp.ret[1].price_edge_x2 = ScanEdgeX2(i)
                 /\ lastOp.ret[1].ticker = lastOp.ticker
                 /\ \A j \in ScanCandidates :
                       /\ ScanEdgeX2(j) <= ScanEdgeX2(i)
                       /\ ScanEdgeX2(j) = ScanEdgeX2(i) => i <= j

\* two candidates tie for the largest edge, and rows that exceed only one of
\* the two thresholds have a larger edge than the one returned
C19_Witness ==
    /\ lastOp.op = "find_option_opportunity"
    /\ lastOp.ret # <<>>
    /\ \E i, j \in ScanCandidates :
          /\ i < j
          /\ ScanEdgeX2(i) = ScanEdgeX2(j)
          /\ lastOp.ret[1].strike = ScanCalls[i].strike
    /\ \E k \in 1..Len(ScanCalls) :
          /\ k \notin ScanCandidates
          /\ ScanCalls[k].impliedVolatility - lastOp.data.hist_vol <= 3
          /\ ScanEdgeX2(k) > lastOp.ret[1].price_edge_x2
    /\ \E k \in 1..Len(ScanCalls) :
          /\ k \notin ScanCandidates
          /\ ScanCalls[k].impliedVolatility - lastOp.data.hist_vol > 3
          /\ ScanEdgeX2(k) > 0

\* C16 as stated: the benchmark share counts of a portfolio are computed once
\* and no later step changes them.
C16_SharesNeverChange ==
    [][portfolio'.benchmark_shares = portfolio.benchmark_shares]_vars

\* C16 (amended): initialize_portfolio computes the share counts from the
\* prices it fetches (or the fallback price), the first update_daily_snapshot,
\* called while daily_snapshots holds only the initial snapshot, replaces them
\* by 250 / spot of that moment, and no later step changes them, in memory or
\* in the data file.
C16_SharesFixedAfterFirstSnapshot ==
    /\ [][IF Len(portfolio.daily_snapshots) = 1 /\ lastOp'.op = "update_daily_snapshot"
          THEN portfolio'.benchmark_shares = [t \in TickerSet |-> Shares(market.spot[t])]
          ELSE portfolio'.benchmark_shares = portfolio.benchmark_shares]_vars
    /\ [][Len(file[1].daily_snapshots) > 1
            => file'[1].benchmark_shares = file[1].benchmark_shares]_vars

\* runs of three days saved, the prices of the latest differing from the
\* prices the share counts were computed from
C16_Witness ==
    /\ pc = "done"
    /\ Len(file[1].daily_snapshots) > 3
    /\ \E t \in TickerSet :
          /\ file[1].benchmark_shares[t].price # market.spot[t]
          /\ file[1].benchmark_shares[t].price # fallback_price
          /\ Last(file[1].daily_snapshots).benchmarks[t] # allocation_per_ticker

\* C18: the total premium of every trade sized by execute_trade is at most
\* 2% of the per-ticker allocation, 5 dollars.
C18_PremiumCap ==
    \A i \in 1..Len(AllTrades) :
        AllTrades[i].contracts * AllTrades[i].entry_price * 100
          <= (allocation_per_ticker * 2) \div 100

\* C20: daily_snapshots only grows at its end: no step changes or removes a
\* snapshot of the portfolio or of the data file, update_daily_snapshot
\* appends exactly one, and every completed run saves exactly one more
\* snapshot than it loaded.
C20_SnapshotsAppendOnly ==
    /\ [][/\ IsPrefix(portfolio.daily_snapshots, portfolio'.daily_snapshots)
          /\ Len(portfolio'.daily_snapshots) =
                Len(portfolio.daily_snapshots)
                + (IF lastOp'.op = "update_daily_snapshot" THEN 1 ELSE 0)]_vars
    /\ [][/\ IsPrefix(file[1].daily_snapshots, file'[1].daily_snapshots)
          /\ Len(file'[1].daily_snapshots) =
                Len(file[1].daily_snapshots)
                + (IF lastOp'.op = "save_portfolio" THEN 1 ELSE 0)]_vars

C20_Witness ==
    /\ pc = "done"
    /\ lastOp.op = "save_portfolio"
    /\ Len(file[1].daily_snapshots) = MaxDay + 2
    /\ Last(file[1].daily_snapshots).date = MaxDay
    /\ file[1].daily_snapshots[2].positions_value # Last(file[1].daily_snapshots).positions_value

\* the ticker the scan is at, what the scanner returns for it in this run,
\* and the reasons of rejection that apply to it
ScanTicker == tickers[scan_i]

ScanOpportunity ==
    find_option_opportunity(ScanTicker, today, market.spot[ScanTicker], market.data[ScanTicker])

DuplicateApplies ==
    /\ ScanOpportunity # <<>>
    /\ \E pos \in Range(portfolio.positions) : KeyOf(pos) = KeyOf(ScanOpportunity[1])

PortfolioMaxApplies == Len(portfolio.positions) >= 4

TickerCapApplies == \E pos \in Range(portfolio.positions) : pos.ticker = ScanTicker

CashApplies ==
    /\ ScanOpportunity # <<>>
    /\ Max(1, (5 * Dollar) \div (ScanOpportunity[1].price * 100)) * ScanOpportunity[1].price * 100
         > portfolio.current_cash

\* C17 as stated: the reasons are tested in the order duplicate, portfolio
\* at 4 positions, ticker at 1 position, insufficient cash, and the first that
\* applies rejects the trade.
C17_RejectionOrder ==
    [][(pc = "scan" /\ lastOp'.op # "lookup_failed") =>
          IF DuplicateApplies THEN lastOp'.op = "execute_trade" /\ ~lastOp'.ret
          ELSE IF PortfolioMaxApplies THEN lastOp'.op = "stop_scan"
          ELSE IF TickerCapApplies THEN lastOp'.op = "skip_ticker"
          ELSE CashApplies => (lastOp'.op = "execute_trade" /\ ~lastOp'.ret)]_vars

\* C17 (amended): run_daily_update tests the portfolio maximum once before
\* the scan; for each ticker it tests the per-ticker cap, then the portfolio
\* maximum, and only then scans; execute_trade tests the duplicate and then
\* the cash.  The first reason that applies in this order rejects: a ticker
\* that has an open position is skipped whatever the scanner would return, a
\* duplicate included.
C17_CodeOrder ==
    /\ [][(pc = "update" /\ lastOp'.op = "update_positions")
            => (pc' = "snapshot" <=> Len(portfolio'.positions) >= 4)]_vars
    /\ [][(pc = "scan" /\ lastOp'.op # "lookup_failed") =>
            IF TickerCapApplies
            THEN lastOp'.op = "skip_ticker" /\ portfolio' = portfolio
            ELSE IF total_open_positions >= 4
            THEN lastOp'.op = "stop_scan" /\ portfolio' = portfolio
            ELSE IF ScanOpportunity = <<>>
            THEN lastOp'.op = "no_opportunity" /\ portfolio' = portfolio
            ELSE /\ lastOp'.op = "execute_trade"
                 /\ lastOp'.ret <=> (~DuplicateApplies /\ ~CashApplies)
                 /\ ~lastOp'.ret => portfolio' = portfolio]_vars

\* a ticker was skipped for its open position although the scanner returns
\* the very contract of that position
C17_Witness ==
    /\ lastOp.op = "skip_ticker"
    /\ LET ticker == tickers[scan_i - 1]
           opportunity == find_option_opportunity(ticker, today, market.spot[ticker],
                                                  market.data[ticker])
       IN  /\ opportunity # <<>>
           /\ \E pos \in Range(portfolio.positions) : KeyOf(pos) = KeyOf(opportunity[1])
    /\ Len(portfolio.positions) < 4

\* the trades of a document are SELL trades of one contract at a bid over
\* 0.10, the premium being bid x 100
OneContractEach(pf) ==
    \A t \in Range(pf.positions \o pf.closed_trades) :
        /\ t.entry_price > 10 * Cent
        /\ (5 * Dollar) \div (t.entry_price * 100) = 0
        /\ t.contracts = 1
        /\ t.premium_collected = t.entry_price * 100
        /\ t.premium_paid = 0

\* C21: every trade executed through a daily cycle is filled at a bid over
\* 0.10 and has exactly 1 contract: floor(5 / (bid x 100)) is 0 and the total
\* premium is bid x 100; the same holds of the size computed for any liquid
\* row of the chains of the run.
C21_OneContract ==
    /\ OneContractEach(portfolio)
    /\ OneContractEach(file[1])
    /\ \A t \in TickerSet :
          \A row \in Range(market.data[t].calls) :
             (row.volume > 10 /\ row.bid > 10 * Cent) =>
                 /\ Contracts([price |-> row.bid]) = 1
                 /\ total_premium([price |-> row.bid]) = row.bid * 100

C21_Witness ==
    /\ pc = "done"
    /\ \E t, u \in Range(file[1].positions \o file[1].closed_trades) :
          /\ t.entry_price # u.entry_price
          /\ t.contracts = 1
          /\ u.contracts = 1
    /\ file[1].closed_trades # <<>>

\* number of closed trades whose pnl satisfies P
CountPnl(closed, P(_)) == Cardinality({i \in 1..Len(closed) : P(closed[i].pnl)})

\* C22: winning_trades counts the closed trades with pnl > 0 and
\* losing_trades those with pnl <= 0, a pnl of exactly 0 included;
\* largest_win is never negative and largest_loss never positive.
C22_ZeroPnlIsLoss ==
    LET stats == portfolio.performance_stats
    IN  /\ stats.winning_trades = CountPnl(portfolio.closed_trades, LAMBDA x : x > 0)
        /\ stats.losing_trades = CountPnl(portfolio.closed_trades, LAMBDA x : x <= 0)
        /\ stats.largest_win >= 0
        /\ stats.largest_loss <= 0
        /\ \A c \in Range(portfolio.closed_trades) :
              c.pnl <= stats.largest_win /\ c.pnl >= stats.largest_loss

\* the only trade counted as lost has a pnl of exactly 0
C22_Witness ==
    /\ portfolio.performance_stats.losing_trades = 1
    /\ portfolio.performance_stats.largest_loss = 0
    /\ portfolio.performance_stats.winning_trades = 1
    /\ portfolio.performance_stats.largest_win > 0
    /\ \E c \in Range(portfolio.closed_trades) : c.pnl = 0

\* C23: no two trades of positions and closed_trades share an id; the ids
\* are 0, 1, 2, ... in the order the trades were entered: a trade executed
\* gets the number of trades entered before it, larger than every id in use,
\* and closing a trade leaves its id as it is.
C23_UniqueIds ==
    /\ [](/\ \A i, j \in 1..Len(AllTrades) : AllTrades[i].id = AllTrades[j].id => i = j
          /\ TradeIds(AllTrades) = 0..(Len(AllTrades) - 1)
          /\ \A i, j \in 1..Len(portfolio.positions) :
                i < j => portfolio.positions[i].id < portfolio.positions[j].id
          /\ \A t, u \in Range(AllTrades) : t.id < u.id => t.entry_date <= u.entry_date)
    /\ [][/\ TradeIds(AllTrades) \subseteq TradeIds(AllTrades')
          /\ (lastOp'.op = "execute_trade" /\ lastOp'.ret) =>
                /\ Last(portfolio'.positions).id = Len(AllTrades)
                /\ \A t \in Range(AllTrades) : t.id < Last(portfolio'.positions).id
          /\ ~(lastOp'.op = "execute_trade" /\ lastOp'.ret) =>
                TradeIds(AllTrades') = TradeIds(AllTrades)]_vars

\* a trade entered after another was closed: its id is not its place in the
\* list of open positions
C23_Witness ==
    /\ lastOp.op = "execute_trade"
    /\ lastOp.ret
    /\ portfolio.closed_trades # <<>>
    /\ Len(portfolio.positions) > 1
    /\ Last(portfolio.positions).id > Len(portfolio.positions) - 1
    /\ \E c \in Range(portfolio.closed_trades) : c.id > portfolio.positions[1].id

====
